---------------------------- MODULE Spec2Model ----------------------------
(***************************************************************************)
(* A model of the ssd1681-async e-paper driver: the command sequencer and  *)
(* display controller of src/src/driver.rs and the buffered drawing        *)
(* surface of src/src/graphics.rs.                                         *)
(*                                                                         *)
(* Every call on the hardware abstraction layer (a pin write, a pin read,  *)
(* a bus write, a delay, an edge wait) is one step of the model with a     *)
(* nondeterministic outcome (success or failure); the busy line is driven  *)
(* by the device, which the specification Spec leaves unconstrained.       *)
(* An async fn is modelled as the sequence of HAL steps it awaits, in      *)
(* source order; `todo` holds the steps the running call has still to      *)
(* perform and `events` records the ones it has performed.                 *)
(***************************************************************************)
EXTENDS Integers, Sequences, FiniteSets, TLC

VARIABLES
    X, Y,            \* the const generics of Ssd1681<X, Y, ..>
    builder,         \* "open" (Ssd1681Builder alive) | "consumed"
    backlight_pin,   \* Option<BL>: "None" | "Some"
    controller,      \* "none" | "live" (new returned Ok) | "failed" (new returned Err)
    display,         \* "none" | "wrapped" (the driver is owned by a BufferedDisplay)
    op,              \* the public call running or last run
    arg,             \* the buffer that call was given (draw_frame, flush)
    todo,            \* HAL steps the running call has still to perform
    result,          \* "pending" while a call runs, then "Ok" or the DisplayError
    events,          \* HAL steps performed by the running / last call, in order
    completed,       \* opcodes whose send_command returned Ok on this controller
    init_runs,       \* number of times init was entered
    busy_line,       \* level of the busy input, driven by the device
    dc_line,         \* level of the data/command output
    reset_line,      \* level of the reset output
    bl_line,         \* level of the backlight output
    dev,             \* the device behind the busy line: how it answers, what it is doing
    prior,           \* history: how the calls before the running / last one ended
    buffer,          \* BufferedDisplay.buffer
    rotation,        \* BufferedDisplay.rotation
    overflow_checks, \* build profile: TRUE panics on usize overflow, FALSE wraps
    gfx,             \* "none" | "ready" | "panicked": the drawing surface
    draws,           \* number of pixels drawn by the calls the model bounds
    drawn,           \* the last pixel drawn: its arguments, the buffer before, the outcome
    prev             \* the pixel drawn before the last one in the same draw_iter call

drv_vars == <<builder, backlight_pin, controller, display, op, arg, todo, result,
              events, completed, init_runs, busy_line, dc_line, reset_line, bl_line,
              dev, prior>>
gfx_vars == <<buffer, rotation, overflow_checks, gfx, draws, drawn, prev>>
vars == <<X, Y, drv_vars, gfx_vars>>

-----------------------------------------------------------------------------
(* Bounds of the model.                                                    *)

\* Largest number of pixels drawn in one behaviour of SpecGfx.
MaxDraws == 1
\* How far outside the larger canvas side the drawn coordinates range.
Margin == 1
\* Width of usize in bits (a 16-bit target; the drawn coordinates are far smaller).
UsizeBits == 16

\* Panel geometries the controller is instantiated with.
Geometries == {<<8, 2>>, <<16, 3>>, <<8, 256>>, <<8, 300>>}
\* Panel geometries of the drawing surface (width a multiple of 8).
GfxGeometries == {<<8, 2>>, <<16, 2>>, <<8, 3>>}

LOW == "Low"
HIGH == "High"
Levels == {LOW, HIGH}

-----------------------------------------------------------------------------
(* The command set (crate::commands).                                      *)

RESET == "RESET"
SET_DATA_ENTRY_MODE == "SET_DATA_ENTRY_MODE"
SET_RAM_X == "SET_RAM_X"
SET_RAM_Y == "SET_RAM_Y"
SET_TEMPERATURE_SENSOR == "SET_TEMPERATURE_SENSOR"
SET_X_POINTER == "SET_X_POINTER"
SET_Y_POINTER == "SET_Y_POINTER"
WRITE_RAM == "WRITE_RAM"
SET_UPDATE_SEQUENCE == "SET_UPDATE_SEQUENCE"
REFRESH_PANEL == "REFRESH_PANEL"

-----------------------------------------------------------------------------
(* Values.                                                                 *)

\* Option<&[u8]>
None == [some |-> FALSE, v |-> <<>>]
Some(bytes) == [some |-> TRUE, v |-> bytes]

\* `as u8`
AsU8(n) == n % 256

\* One HAL call: its kind, the send_command it belongs to ("" outside one), the
\* bytes written, the delay length and the DisplayError its failure maps to.
Step(k, cmd, bytes, n, err) == [k |-> k, cmd |-> cmd, bytes |-> bytes, n |-> n, err |-> err]

\* Question with the error dropped: the function goes on after a failure.
QuestionIgnored(res, rest) == rest

\* The `?` operator: the rest of the function runs only after Ok.
Question(res, rest) == IF res = "Ok" THEN rest ELSE <<>>

-----------------------------------------------------------------------------
(* The sequencer: each async fn as the HAL steps it performs.              *)

\* delay.delay_ms(n) / delay.delay_us(n)
delay_ms(n) == <<Step("delay_ms", "", <<>>, n, "")>>
delay_us(n, cmd) == <<Step("delay_us", cmd, <<>>, n, "")>>

busy(cmd) == <<Step("busy", cmd, <<>>, 0, "BusyPinFailure")>>

\* busy_check that lets a busy device through.
busy_check_ignored(level) == "Ok"

\* busy_check with the polarity of the busy line inverted.
busy_check_inverted(level) == IF level = LOW THEN "DeviceBusy" ELSE "Ok"

\* send_command's test of busy()'s value: a busy device fails the command.
busy_check(level) == IF level = HIGH THEN "DeviceBusy" ELSE "Ok"

send_spi(cmd, data) == <<Step("spi", cmd, data, 0, "SpiFailure")>>

\* wait_while_busy that only sleeps and never looks at the busy line.
wait_while_busy_blind(cmd) == delay_ms(20)

\* wait_while_busy without the delay that lets the device raise its busy line.
wait_while_busy_at_once(cmd) == <<Step("wait_for_low", cmd, <<>>, 0, "BusyPinFailure")>>

wait_while_busy(cmd) ==
    delay_ms(20) \o <<Step("wait_for_low", cmd, <<>>, 0, "BusyPinFailure")>>

\* send_command that leaves the data/command line low for the payload.
send_command_dc_kept_low(command, data) ==
    busy(command)
    \o <<Step("dc_low", command, <<>>, 0, "DataCommandPinFailure")>>
    \o delay_us(10, command)
    \o send_spi(command, <<command>>)
    \o (IF data.some
        THEN delay_us(10, command)
             \o send_spi(command, data.v)
        ELSE <<>>)
    \o wait_while_busy(command)
    \o <<Step("ret", command, <<>>, 0, "")>>

send_command(command, data) ==
    busy(command)
    \o <<Step("dc_low", command, <<>>, 0, "DataCommandPinFailure")>>
    \o delay_us(10, command)
    \o send_spi(command, <<command>>)
    \o (IF data.some
        THEN <<Step("dc_high", command, <<>>, 0, "DataCommandPinFailure")>>
             \o delay_us(10, command)
             \o send_spi(command, data.v)
        ELSE <<>>)
    \o wait_while_busy(command)
    \o <<Step("ret", command, <<>>, 0, "")>>

\* hw_reset that does not wait after releasing the reset line.
hw_reset_no_settle ==
    <<Step("rst_low", "", <<>>, 0, "ResetPinFailure")>>
    \o delay_ms(10)
    \o <<Step("rst_high", "", <<>>, 0, "ResetPinFailure")>>

hw_reset ==
    <<Step("rst_low", "", <<>>, 0, "ResetPinFailure")>>
    \o delay_ms(10)
    \o <<Step("rst_high", "", <<>>, 0, "ResetPinFailure")>>
    \o delay_ms(10)

sw_reset == send_command(RESET, None)

full_reset == hw_reset \o sw_reset

set_data_entry_mode == send_command(SET_DATA_ENTRY_MODE, Some(<<3>>))

set_ram_x == send_command(SET_RAM_X, Some(<<0, AsU8((X - 1) \div 8)>>))

set_ram_y == send_command(SET_RAM_Y, Some(<<0, 0, AsU8(Y - 1), 0>>))

set_internal_temp_sensor == send_command(SET_TEMPERATURE_SENSOR, Some(<<128>>))

set_update_sequence == send_command(SET_UPDATE_SEQUENCE, Some(<<247>>))

\* init with the two address-range commands exchanged.
init_reordered ==
    delay_ms(10)
    \o full_reset
    \o set_data_entry_mode
    \o set_ram_y
    \o set_ram_x
    \o set_internal_temp_sensor

init ==
    delay_ms(10)
    \o full_reset
    \o set_data_entry_mode
    \o set_ram_x
    \o set_ram_y
    \o set_internal_temp_sensor

\* draw_frame that writes the RAM before it resets the address pointers.
draw_frame_reordered(buf) ==
    send_command(WRITE_RAM, Some(buf))
    \o send_command(SET_X_POINTER, Some(<<0>>))
    \o send_command(SET_Y_POINTER, Some(<<0, 0>>))
    \o set_update_sequence
    \o send_command(REFRESH_PANEL, None)

draw_frame(buf) ==
    send_command(SET_X_POINTER, Some(<<0>>))
    \o send_command(SET_Y_POINTER, Some(<<0, 0>>))
    \o send_command(WRITE_RAM, Some(buf))
    \o set_update_sequence
    \o send_command(REFRESH_PANEL, None)

\* new that returns the controller whatever init returned.
new_unchecked(init_result) == "live"

\* Ssd1681::new: the controller exists only when init returned Ok.
new(init_result) == IF init_result = "Ok" THEN "live" ELSE "failed"


-----------------------------------------------------------------------------
(* Buffers.                                                                *)

\* The length BufferedDisplay::new asserts: N == D::X * D::Y / 8.
BufferLen == (X * Y) \div 8

Zeros(n) == [i \in 1..n |-> 0]
Ones(n) == [i \in 1..n |-> 255]
Pattern(n) == [i \in 1..n |-> (i * 37) % 256]

\* Buffers a BufferedDisplay is constructed with.
InitBuffers == {Zeros(BufferLen), Pattern(BufferLen)}
\* Slices draw_frame is called with directly: any length.
Slices == {<<>>, <<255>>, Pattern(BufferLen)}

Rotations == {"_0", "_90", "_180", "_270"}

NoDraw == [x |-> 0, y |-> 0, color |-> "None", before |-> <<>>, outcome |-> "None"]

\* A device of which nothing is known: its busy line changes at any time.
FreeDevice == [mode |-> "free", on_reset |-> FALSE]
\* No call has returned yet.
NoPrior == [last |-> "none", bus |-> "none"]

-----------------------------------------------------------------------------
(* The controller: state after power-up, before Ssd1681Builder::connect.   *)

Init ==
    /\ \E g \in Geometries : X = g[1] /\ Y = g[2]
    /\ builder = "open"
    /\ backlight_pin = "None"
    /\ controller = "none"
    /\ display = "none"
    /\ op = "none"
    /\ arg = <<>>
    /\ todo = <<>>
    /\ result = "none"
    /\ events = <<>>
    /\ completed = {}
    /\ init_runs = 0
    /\ busy_line \in Levels
    /\ dc_line \in Levels
    /\ reset_line \in Levels
    /\ bl_line = LOW
    /\ dev = FreeDevice
    /\ prior = NoPrior
    /\ buffer = <<>>
    /\ rotation = "_0"
    /\ overflow_checks = FALSE
    /\ gfx = "none"
    /\ draws = 0
    /\ drawn = NoDraw
    /\ prev = NoDraw

Idle == todo = <<>>

\* What a performed step leaves in `events`: the step and its outcome ("Ok",
\* "Err", or the level read from the busy line).
Ev(s, out) == [k |-> s.k, cmd |-> s.cmd, bytes |-> s.bytes, n |-> s.n, out |-> out,
               dc |-> dc_line]

\* A step returned `res`: the call goes on with `rest`, or returns.
Finish(res, rest) ==
    LET t == Question(res, rest) IN
    /\ todo' = t
    /\ result' = IF t = <<>> THEN res ELSE "pending"
    /\ controller' = IF t = <<>> /\ op = "connect" THEN new(res) ELSE controller

\* The calls that use the bus and the busy line.
BusCalls == {"connect", "draw_frame", "flush"}

\* History kept when a call starts: whether the call before it succeeded, and
\* whether the last call before it that used the bus did. It is kept for the
\* devices that answer what they receive, whose busy line depends on the past.
Earlier ==
    LET was == IF result = "Ok" THEN "Ok" ELSE "Err" IN
    IF op = "none" \/ dev.mode = "free" THEN NoPrior
    ELSE [last |-> was, bus |-> IF op \in BusCalls THEN was ELSE prior.bus]

\* A public call starts running `steps`.
Start(name, buf, steps) ==
    /\ op' = name
    /\ arg' = buf
    /\ todo' = steps
    /\ result' = "pending"
    /\ events' = <<>>
    /\ prior' = Earlier

\* Ssd1681Builder::with_backlight
WithBacklight ==
    /\ builder = "open"
    /\ backlight_pin = "None"
    /\ backlight_pin' = "Some"
    /\ UNCHANGED <<X, Y, builder, controller, display, op, arg, todo, result, events,
                   completed, init_runs, busy_line, dc_line, reset_line, bl_line, gfx_vars,
                   dev, prior>>

\* Ssd1681Builder::connect -> Ssd1681::new, which runs init
Connect ==
    /\ builder = "open"
    /\ builder' = "consumed"
    /\ Start("connect", <<>>, init)
    /\ init_runs' = init_runs + 1
    /\ UNCHANGED <<X, Y, backlight_pin, controller, display, completed, busy_line,
                   dc_line, reset_line, bl_line, gfx_vars,
                   dev>>

\* DisplayDriver::draw_frame, called on the controller itself
DrawFrame ==
    /\ controller = "live"
    /\ display = "none"
    /\ Idle
    /\ \E buf \in Slices : Start("draw_frame", buf, draw_frame(buf))
    /\ UNCHANGED <<X, Y, builder, backlight_pin, controller, display, completed,
                   init_runs, busy_line, dc_line, reset_line, bl_line, gfx_vars,
                   dev>>

\* const { assert!(N == D::X * D::Y / 8) } with the length the buffer's N counts bits in.
const_assert_bits(N) == N = X * Y

\* const { assert!(N == D::X * D::Y / 8) }: a BufferedDisplay<N, D> that fails it
\* does not compile, so no program constructs it.
const_assert(N) == N = (X * Y) \div 8

\* Arrays [u8; N] a program may try to build a display on: the right length, one
\* byte more, one byte per pixel, none.
Arrays == InitBuffers \cup {Zeros(BufferLen + 1), Zeros(X * Y), <<>>}

\* BufferedDisplay::new: the display takes ownership of the controller
NewDisplay ==
    /\ controller = "live"
    /\ display = "none"
    /\ Idle
    /\ display' = "wrapped"
    /\ \E buf \in Arrays : const_assert(Len(buf)) /\ buffer' = buf
    /\ rotation' \in Rotations
    /\ gfx' = "ready"
    /\ UNCHANGED <<X, Y, builder, backlight_pin, controller, op, arg, todo, result,
                   events, completed, init_runs, busy_line, dc_line, reset_line,
                   bl_line, dev, prior, overflow_checks, draws, drawn, prev>>

\* flush that takes the buffer out of the display (core::mem::take) to send it.
Flush_taking ==
    /\ display = "wrapped"
    /\ gfx = "ready"
    /\ Idle
    /\ Start("flush", buffer, draw_frame(buffer))
    /\ buffer' = Zeros(Len(buffer))
    /\ UNCHANGED <<X, Y, builder, backlight_pin, controller, display, completed,
                   init_runs, busy_line, dc_line, reset_line, bl_line,
                   rotation, overflow_checks, gfx, draws, drawn, prev, dev>>

\* BufferedDisplay::flush
Flush ==
    /\ display = "wrapped"
    /\ gfx = "ready"
    /\ Idle
    /\ Start("flush", buffer, draw_frame(buffer))
    /\ UNCHANGED <<X, Y, builder, backlight_pin, controller, display, completed,
                   init_runs, busy_line, dc_line, reset_line, bl_line, gfx_vars,
                   dev>>

\* enable_backlight / disable_backlight that treat a missing pin as a failure.
Backlight_requires_pin(high, ok) ==
    /\ controller = "live"
    /\ display = "none"
    /\ Idle
    /\ op' = IF high THEN "enable_backlight" ELSE "disable_backlight"
    /\ arg' = <<>>
    /\ prior' = Earlier
    /\ IF backlight_pin = "Some"
       THEN /\ events' = <<Ev(Step(IF high THEN "bl_high" ELSE "bl_low", "", <<>>, 0,
                                   "BacklightPinFailure"),
                              IF ok THEN "Ok" ELSE "Err")>>
            /\ result' = IF ok THEN "Ok" ELSE "BacklightPinFailure"
            /\ bl_line' \in IF ok THEN {IF high THEN HIGH ELSE LOW}
                                  ELSE {bl_line, IF high THEN HIGH ELSE LOW}
       ELSE /\ events' = <<>>
            /\ result' = "BacklightPinFailure"
            /\ bl_line' = bl_line
    /\ UNCHANGED <<X, Y, builder, backlight_pin, controller, display, todo, completed,
                   init_runs, busy_line, dc_line, reset_line, gfx_vars,
                   dev>>

\* enable_backlight (high = TRUE) / disable_backlight (high = FALSE)
Backlight(high, ok) ==
    /\ controller = "live"
    /\ display = "none"
    /\ Idle
    /\ op' = IF high THEN "enable_backlight" ELSE "disable_backlight"
    /\ arg' = <<>>
    /\ prior' = Earlier
    /\ IF backlight_pin = "Some"
       THEN /\ events' = <<Ev(Step(IF high THEN "bl_high" ELSE "bl_low", "", <<>>, 0,
                                   "BacklightPinFailure"),
                              IF ok THEN "Ok" ELSE "Err")>>
            /\ result' = IF ok THEN "Ok" ELSE "BacklightPinFailure"
            /\ bl_line' \in IF ok THEN {IF high THEN HIGH ELSE LOW}
                                  ELSE {bl_line, IF high THEN HIGH ELSE LOW}
       ELSE /\ events' = <<>>
            /\ result' = "Ok"
            /\ bl_line' = bl_line
    /\ UNCHANGED <<X, Y, builder, backlight_pin, controller, display, todo, completed,
                   init_runs, busy_line, dc_line, reset_line, gfx_vars,
                   dev>>

EnableBacklight == \E ok \in BOOLEAN : Backlight(TRUE, ok)
DisableBacklight == \E ok \in BOOLEAN : Backlight(FALSE, ok)

-----------------------------------------------------------------------------
(* The HAL steps of the running call.                                      *)

Running(kinds) == todo # <<>> /\ Head(todo).k \in kinds

\* The device has received an opcode byte, or (when it answers resets) a reset
\* pulse: idle, it will answer; a device of which nothing is known is left so.
Receives(d) == IF d.mode = "idle" THEN [d EXCEPT !.mode = "pending"] ELSE d

\* delay.delay_ms / delay.delay_us: cannot fail. A device that answers what it
\* received has done so before a delay of milliseconds is over.
StepDelay ==
    /\ Running({"delay_ms", "delay_us"})
    /\ Head(todo).k = "delay_ms" => dev.mode # "pending"
    /\ events' = Append(events, Ev(Head(todo), "Ok"))
    /\ Finish("Ok", Tail(todo))
    /\ UNCHANGED <<X, Y, builder, backlight_pin, display, op, arg, completed, init_runs,
                   busy_line, dc_line, reset_line, bl_line, gfx_vars,
                   dev, prior>>

\* The level a pin step drives, and the level a failed drive may leave.
Target(k) == IF k \in {"rst_high", "dc_high", "bl_high"} THEN HIGH ELSE LOW
After(ok, k, line) == IF ok THEN {Target(k)} ELSE {line, Target(k)}

\* reset_pin.set_low / set_high (hw_reset)
StepResetPin(ok) ==
    /\ Running({"rst_low", "rst_high"})
    /\ reset_line' \in After(ok, Head(todo).k, reset_line)
    /\ dev' = IF ok /\ Head(todo).k = "rst_low" /\ dev.on_reset THEN Receives(dev) ELSE dev
    /\ events' = Append(events, Ev(Head(todo), IF ok THEN "Ok" ELSE "Err"))
    /\ Finish(IF ok THEN "Ok" ELSE Head(todo).err, Tail(todo))
    /\ UNCHANGED <<X, Y, builder, backlight_pin, display, op, arg, completed, init_runs,
                   busy_line, dc_line, bl_line, gfx_vars,
                   prior>>

\* dc_pin.set_low / set_high (send_command)
StepDcPin(ok) ==
    /\ Running({"dc_low", "dc_high"})
    /\ dc_line' \in After(ok, Head(todo).k, dc_line)
    /\ events' = Append(events, Ev(Head(todo), IF ok THEN "Ok" ELSE "Err"))
    /\ Finish(IF ok THEN "Ok" ELSE Head(todo).err, Tail(todo))
    /\ UNCHANGED <<X, Y, builder, backlight_pin, display, op, arg, completed, init_runs,
                   busy_line, reset_line, bl_line, gfx_vars,
                   dev, prior>>

\* busy(): busy_pin.is_high, then send_command's test of the level read
StepBusy(ok) ==
    /\ Running({"busy"})
    /\ events' = Append(events, Ev(Head(todo), IF ok THEN busy_line ELSE "Err"))
    /\ Finish(IF ok THEN busy_check(busy_line) ELSE Head(todo).err, Tail(todo))
    /\ UNCHANGED <<X, Y, builder, backlight_pin, display, op, arg, completed, init_runs,
                   busy_line, dc_line, reset_line, bl_line, gfx_vars,
                   dev, prior>>

\* send_spi: spi.write(data)
StepSpi(ok) ==
    /\ Running({"spi"})
    /\ dev' = IF ok /\ dc_line = LOW THEN Receives(dev) ELSE dev
    /\ events' = Append(events, Ev(Head(todo), IF ok THEN "Ok" ELSE "Err"))
    /\ Finish(IF ok THEN "Ok" ELSE Head(todo).err, Tail(todo))
    /\ UNCHANGED <<X, Y, builder, backlight_pin, display, op, arg, completed, init_runs,
                   busy_line, dc_line, reset_line, bl_line, gfx_vars,
                   prior>>

\* busy_pin.wait_for_low: resolves Ok once the line is low, or fails
StepWaitForLow(ok) ==
    /\ Running({"wait_for_low"})
    /\ ok => busy_line = LOW
    /\ events' = Append(events, Ev(Head(todo), IF ok THEN busy_line ELSE "Err"))
    /\ Finish(IF ok THEN "Ok" ELSE Head(todo).err, Tail(todo))
    /\ UNCHANGED <<X, Y, builder, backlight_pin, display, op, arg, completed, init_runs,
                   busy_line, dc_line, reset_line, bl_line, gfx_vars,
                   dev, prior>>

\* send_command returns Ok(())
StepReturn ==
    /\ Running({"ret"})
    /\ events' = Append(events, Ev(Head(todo), "Ok"))
    /\ completed' = completed \cup {Head(todo).cmd}
    /\ Finish("Ok", Tail(todo))
    /\ UNCHANGED <<X, Y, builder, backlight_pin, display, op, arg, init_runs,
                   busy_line, dc_line, reset_line, bl_line, gfx_vars,
                   dev, prior>>

\* The device raises or drops its busy line.
Device ==
    /\ busy_line' = IF busy_line = LOW THEN HIGH ELSE LOW
    /\ UNCHANGED <<X, Y, builder, backlight_pin, controller, display, op, arg, todo,
                   result, events, completed, init_runs, dc_line, reset_line, bl_line,
                   gfx_vars,
                   dev, prior>>

\* The steps in which the HAL call succeeds.
Progress ==
    \/ StepDelay
    \/ StepResetPin(TRUE)
    \/ StepDcPin(TRUE)
    \/ StepBusy(TRUE)
    \/ StepSpi(TRUE)
    \/ StepWaitForLow(TRUE)
    \/ StepReturn

Next ==
    \/ WithBacklight
    \/ Connect
    \/ DrawFrame
    \/ NewDisplay
    \/ Flush
    \/ EnableBacklight
    \/ DisableBacklight
    \/ StepDelay
    \/ \E ok \in BOOLEAN : StepResetPin(ok)
    \/ \E ok \in BOOLEAN : StepDcPin(ok)
    \/ \E ok \in BOOLEAN : StepBusy(ok)
    \/ \E ok \in BOOLEAN : StepSpi(ok)
    \/ \E ok \in BOOLEAN : StepWaitForLow(ok)
    \/ StepReturn
    \/ Device

Spec == Init /\ [][Next]_vars

\* The executor keeps polling the running call and a HAL call that can succeed
\* completes; nothing obliges the device to drop its busy line.
FairSpec == Spec /\ WF_vars(Progress)

-----------------------------------------------------------------------------
(* A device that answers what it receives: it raises its busy line only    *)
(* after an opcode byte (or, if it answers resets, after a reset pulse),   *)
(* does so before the driver's next delay of milliseconds is over, and    *)
(* keeps the line high until it has finished.                              *)

\* The devices: at power-up idle or still busy, answering resets or not.
Devices == [mode : {"idle", "busy"}, on_reset : BOOLEAN]

\* The busy line does not depend on the geometry: one panel, 8 by 2.
DevInit ==
    /\ X = 8 /\ Y = 2
    /\ builder = "open"
    /\ backlight_pin = "None"
    /\ controller = "none"
    /\ display = "none"
    /\ op = "none"
    /\ arg = <<>>
    /\ todo = <<>>
    /\ result = "none"
    /\ events = <<>>
    /\ completed = {}
    /\ init_runs = 0
    /\ dev \in Devices
    /\ busy_line = (IF dev.mode = "busy" THEN HIGH ELSE LOW)
    /\ dc_line \in Levels
    /\ reset_line \in Levels
    /\ bl_line = LOW
    /\ prior = NoPrior
    /\ buffer = <<>>
    /\ rotation = "_0"
    /\ overflow_checks = FALSE
    /\ gfx = "none"
    /\ draws = 0
    /\ drawn = NoDraw
    /\ prev = NoDraw

\* The device starts processing what it received and raises its busy line.
DevRaise ==
    /\ dev.mode = "pending"
    /\ dev' = [dev EXCEPT !.mode = "busy"]
    /\ busy_line' = HIGH
    /\ UNCHANGED <<X, Y, builder, backlight_pin, controller, display, op, arg, todo,
                   result, events, completed, init_runs, dc_line, reset_line, bl_line,
                   prior, gfx_vars>>

\* What the device received needs no processing: the busy line stays low.
DevSkip ==
    /\ dev.mode = "pending"
    /\ dev' = [dev EXCEPT !.mode = "idle"]
    /\ UNCHANGED <<X, Y, builder, backlight_pin, controller, display, op, arg, todo,
                   result, events, completed, init_runs, busy_line, dc_line, reset_line,
                   bl_line, prior, gfx_vars>>

\* The device finishes processing and drops its busy line.
DevDone ==
    /\ dev.mode = "busy"
    /\ dev' = [dev EXCEPT !.mode = "idle"]
    /\ busy_line' = LOW
    /\ UNCHANGED <<X, Y, builder, backlight_pin, controller, display, op, arg, todo,
                   result, events, completed, init_runs, dc_line, reset_line, bl_line,
                   prior, gfx_vars>>

DevNext ==
    \/ WithBacklight
    \/ Connect
    \/ DrawFrame
    \/ NewDisplay
    \/ Flush
    \/ EnableBacklight
    \/ DisableBacklight
    \/ StepDelay
    \/ \E ok \in BOOLEAN : StepResetPin(ok)
    \/ \E ok \in BOOLEAN : StepDcPin(ok)
    \/ \E ok \in BOOLEAN : StepBusy(ok)
    \/ \E ok \in BOOLEAN : StepSpi(ok)
    \/ \E ok \in BOOLEAN : StepWaitForLow(ok)
    \/ StepReturn
    \/ DevRaise
    \/ DevSkip
    \/ DevDone

SpecDev == DevInit /\ [][DevNext]_vars

\* The same device, idle at power-up and answering commands only, with pins and
\* a bus that never fail.
LiveInit ==
    /\ DevInit
    /\ dev = [mode |-> "idle", on_reset |-> FALSE]

LiveNext ==
    \/ WithBacklight
    \/ Connect
    \/ DrawFrame
    \/ NewDisplay
    \/ Flush
    \/ Backlight(TRUE, TRUE)
    \/ Backlight(FALSE, TRUE)
    \/ StepDelay
    \/ StepResetPin(TRUE)
    \/ StepDcPin(TRUE)
    \/ StepBusy(TRUE)
    \/ StepSpi(TRUE)
    \/ StepWaitForLow(TRUE)
    \/ StepReturn
    \/ DevRaise
    \/ DevSkip
    \/ DevDone

\* The executor keeps polling the running call; the device decides in time
\* whether to raise its busy line, and once busy it eventually finishes.
SpecLive ==
    /\ LiveInit
    /\ [][LiveNext]_vars
    /\ WF_vars(Progress)
    /\ WF_vars(DevRaise \/ DevSkip)
    /\ WF_vars(DevDone)

-----------------------------------------------------------------------------
(* The drawing surface (BufferedDisplay as a DrawTarget).                  *)

\* usize arithmetic: the value kept to the width of usize, and whether the exact
\* result left the range (a panic when the build checks overflow, a wrap otherwise).
UsizeMod == 2 ^ UsizeBits
AsUsize(i) == i % UsizeMod
USub(a, b) == [v |-> (a - b) % UsizeMod, ovf |-> a < b]
UMul(a, b) == [v |-> (a * b) % UsizeMod, ovf |-> a * b >= UsizeMod]
UAdd(a, b) == [v |-> (a + b) % UsizeMod, ovf |-> a + b >= UsizeMod]

\* Dimensions::bounding_box: the size of the logical canvas
bounding_box == IF rotation \in {"_0", "_180"} THEN <<X, Y>> ELSE <<Y, X>>

\* The match with the 270 degree arm subtracting from the width.
hw_270_by_width(rot, x, y) ==
    CASE rot = "_0" -> [hw_x |-> x, hw_y |-> y, ovf |-> FALSE]
      [] rot = "_90" -> [hw_x |-> USub(X - 1, y).v, hw_y |-> x, ovf |-> USub(X - 1, y).ovf]
      [] rot = "_180" -> [hw_x |-> USub(X - 1, x).v, hw_y |-> USub(Y - 1, y).v,
                          ovf |-> USub(X - 1, x).ovf \/ USub(Y - 1, y).ovf]
      [] rot = "_270" -> [hw_x |-> y, hw_y |-> USub(X - 1, x).v, ovf |-> USub(X - 1, x).ovf]

\* The match on self.rotation: [hw_x, hw_y] for the usize coordinates x, y.
hw(rot, x, y) ==
    CASE rot = "_0" -> [hw_x |-> x, hw_y |-> y, ovf |-> FALSE]
      [] rot = "_90" -> [hw_x |-> USub(X - 1, y).v, hw_y |-> x, ovf |-> USub(X - 1, y).ovf]
      [] rot = "_180" -> [hw_x |-> USub(X - 1, x).v, hw_y |-> USub(Y - 1, y).v,
                          ovf |-> USub(X - 1, x).ovf \/ USub(Y - 1, y).ovf]
      [] rot = "_270" -> [hw_x |-> y, hw_y |-> USub(Y - 1, x).v, ovf |-> USub(Y - 1, x).ovf]

\* hw_y * bytes_per_scan + hw_x / 8
byte_index(hw_x, hw_y) ==
    LET bytes_per_scan == X \div 8
        row == UMul(hw_y, bytes_per_scan)
        sum == UAdd(row.v, hw_x \div 8)
    IN [v |-> sum.v, ovf |-> row.ovf \/ sum.ovf]

\* Mask with the bits of a byte counted from the least significant one.
Mask_lsb_first(bit_index) == 2 ^ bit_index

\* 0b1000_0000 >> bit_index
Mask(bit_index) == 2 ^ (7 - bit_index)

\* *byte &= mask, the mask not negated.
AndNotMask_unnegated(byte, mask) == IF (byte \div mask) % 2 = 1 THEN mask ELSE 0

HasBit(byte, mask) == (byte \div mask) % 2 = 1
\* *byte |= mask  and  *byte &= !mask
OrMask(byte, mask) == IF HasBit(byte, mask) THEN byte ELSE byte + mask
AndNotMask(byte, mask) == IF HasBit(byte, mask) THEN byte - mask ELSE byte

\* One iteration of draw_iter's loop: the buffer after Pixel(Point{x, y}, color),
\* or a panic on an overflow the build checks.
draw_pixel(buf, rot, x, y, color) ==
    LET p == hw(rot, AsUsize(x), AsUsize(y))
        idx == byte_index(p.hw_x, p.hw_y)
        bit_index == p.hw_x % 8
    IN IF overflow_checks /\ (p.ovf \/ idx.ovf)
       THEN [buffer |-> buf, outcome |-> "Panic"]
       ELSE IF idx.v < Len(buf)
            THEN [buffer |-> [buf EXCEPT ![idx.v + 1] =
                                 IF color = "On" THEN OrMask(@, Mask(bit_index))
                                                 ELSE AndNotMask(@, Mask(bit_index))],
                  outcome |-> "Ok"]
            ELSE [buffer |-> buf, outcome |-> "Ok"]

\* Coordinates drawn: the logical canvas and Margin pixels around it.
CoordsX == (0 - Margin)..(bounding_box[1] - 1 + Margin)
CoordsY == (0 - Margin)..(bounding_box[2] - 1 + Margin)

\* DrawTarget::draw_iter with one pixel
DrawIter ==
    /\ gfx = "ready"
    /\ Idle
    /\ draws < MaxDraws
    /\ \E x \in CoordsX, y \in CoordsY, color \in {"On", "Off"} :
          LET r == draw_pixel(buffer, rotation, x, y, color) IN
          /\ buffer' = r.buffer
          /\ gfx' = IF r.outcome = "Panic" THEN "panicked" ELSE "ready"
          /\ drawn' = [x |-> x, y |-> y, color |-> color, before |-> buffer,
                       outcome |-> r.outcome]
    /\ prev' = NoDraw
    /\ draws' = draws + 1
    /\ UNCHANGED <<X, Y, drv_vars, rotation, overflow_checks>>

\* DrawTarget::draw_iter with an iterator of two pixels at the same point: the
\* loop body runs twice, the second time on the buffer the first left.
DrawPair ==
    /\ gfx = "ready"
    /\ Idle
    /\ draws < MaxDraws
    /\ \E x \in CoordsX, y \in CoordsY, c1 \in {"On", "Off"}, c2 \in {"On", "Off"} :
          LET r1 == draw_pixel(buffer, rotation, x, y, c1)
              r2 == draw_pixel(r1.buffer, rotation, x, y, c2)
              panic == r1.outcome = "Panic"
          IN /\ buffer' = IF panic THEN r1.buffer ELSE r2.buffer
             /\ gfx' = IF panic \/ r2.outcome = "Panic" THEN "panicked" ELSE "ready"
             /\ prev' = [x |-> x, y |-> y, color |-> c1, before |-> buffer,
                         outcome |-> r1.outcome]
             /\ drawn' = IF panic THEN NoDraw
                         ELSE [x |-> x, y |-> y, color |-> c2, before |-> r1.buffer,
                               outcome |-> r2.outcome]
    /\ draws' = draws + 2
    /\ UNCHANGED <<X, Y, drv_vars, rotation, overflow_checks>>

\* A display freshly built on a connected controller, in either build profile.
GfxInit ==
    /\ \E g \in GfxGeometries : X = g[1] /\ Y = g[2]
    /\ builder = "consumed"
    /\ backlight_pin = "None"
    /\ controller = "live"
    /\ display = "wrapped"
    /\ op = "connect"
    /\ arg = <<>>
    /\ todo = <<>>
    /\ result = "Ok"
    /\ events = <<>>
    /\ completed = {RESET, SET_DATA_ENTRY_MODE, SET_RAM_X, SET_RAM_Y, SET_TEMPERATURE_SENSOR}
    /\ init_runs = 1
    /\ busy_line = LOW
    /\ dc_line = HIGH
    /\ reset_line = HIGH
    /\ bl_line = LOW
    /\ dev = FreeDevice
    /\ prior = NoPrior
    /\ buffer \in {Zeros(BufferLen), Ones(BufferLen), Pattern(BufferLen)}
    /\ rotation \in Rotations
    /\ overflow_checks \in BOOLEAN
    /\ gfx = "ready"
    /\ draws = 0
    /\ drawn = NoDraw
    /\ prev = NoDraw

GfxNext == DrawIter

SpecGfx == GfxInit /\ [][GfxNext]_vars

\* The corner of the logical canvas opposite the origin.
Corner == <<bounding_box[1] - 1, bounding_box[2] - 1>>

\* DrawTarget::draw_iter with one pixel at that corner; any number of such calls.
DrawCorner ==
    /\ gfx = "ready"
    /\ Idle
    /\ \E color \in {"On", "Off"} :
          LET r == draw_pixel(buffer, rotation, Corner[1], Corner[2], color) IN
          /\ buffer' = r.buffer
          /\ gfx' = IF r.outcome = "Panic" THEN "panicked" ELSE "ready"
          /\ drawn' = [x |-> Corner[1], y |-> Corner[2], color |-> color,
                       before |-> buffer, outcome |-> r.outcome]
    /\ prev' = NoDraw
    /\ UNCHANGED <<X, Y, drv_vars, rotation, overflow_checks, draws>>

\* A controller that connect has just returned: the state from which a display
\* is built on it, drawn on and flushed. The corner is inside the canvas, so
\* the build profile makes no difference.
DisplayInit ==
    /\ \E g \in GfxGeometries : X = g[1] /\ Y = g[2]
    /\ builder = "consumed"
    /\ backlight_pin = "None"
    /\ controller = "live"
    /\ display = "none"
    /\ op = "connect"
    /\ arg = <<>>
    /\ todo = <<>>
    /\ result = "Ok"
    /\ events = <<>>
    /\ completed = {RESET, SET_DATA_ENTRY_MODE, SET_RAM_X, SET_RAM_Y, SET_TEMPERATURE_SENSOR}
    /\ init_runs = 1
    /\ busy_line = LOW
    /\ dc_line = HIGH
    /\ reset_line = HIGH
    /\ bl_line = LOW
    /\ dev = FreeDevice
    /\ prior = NoPrior
    /\ buffer = <<>>
    /\ rotation = "_0"
    /\ overflow_checks = FALSE
    /\ gfx = "none"
    /\ draws = 0
    /\ drawn = NoDraw
    /\ prev = NoDraw

DisplayNext ==
    \/ NewDisplay
    \/ DrawCorner
    \/ Flush
    \/ StepDelay
    \/ \E ok \in BOOLEAN : StepDcPin(ok)
    \/ \E ok \in BOOLEAN : StepBusy(ok)
    \/ \E ok \in BOOLEAN : StepSpi(ok)
    \/ \E ok \in BOOLEAN : StepWaitForLow(ok)
    \/ StepReturn
    \/ Device

SpecDisplay == DisplayInit /\ [][DisplayNext]_vars

\* The drawing surface under calls that draw a point twice.
PairNext == DrawPair

SpecGfxPair == GfxInit /\ [][PairNext]_vars

-----------------------------------------------------------------------------
(* What the device sees on the wire.                                       *)

\* The frames of a list of performed steps: a bus write made while the
\* data/command line is low starts a frame with that opcode, a bus write made
\* while it is high is the payload of the frame before it.
RECURSIVE WireOf(_, _)
WireOf(evs, acc) ==
    IF evs = <<>> THEN acc
    ELSE LET e == Head(evs) IN
         IF e.k = "spi" /\ e.out = "Ok"
         THEN IF e.dc = LOW \/ acc = <<>>
              THEN WireOf(Tail(evs), Append(acc, [opcode |-> e.bytes[1], has |-> FALSE,
                                                  data |-> <<>>]))
              ELSE WireOf(Tail(evs), [acc EXCEPT ![Len(acc)] =
                                         [@ EXCEPT !.has = TRUE, !.data = @ \o e.bytes]])
         ELSE WireOf(Tail(evs), acc)

Wire == WireOf(events, <<>>)

Opcodes(w) == [i \in 1..Len(w) |-> w[i].opcode]

IsPrefix(a, b) == Len(a) <= Len(b) /\ \A i \in 1..Len(a) : a[i] = b[i]

Returned == Idle /\ result \notin {"none", "pending"}

-----------------------------------------------------------------------------
(* Claims.                                                                 *)

\* C1: a successful draw_frame(buffer) (and flush, which passes the whole pixel
\* buffer of X*Y/8 bytes) transmits exactly five frames, in this order:
\* SET_X_POINTER with 1 payload byte, SET_Y_POINTER with 2, WRITE_RAM with the
\* entire buffer, SET_UPDATE_SEQUENCE with 1, REFRESH_PANEL with no payload.
C1_DrawFrameSequence ==
    (op \in {"draw_frame", "flush"} /\ result = "Ok") =>
        /\ Opcodes(Wire) = <<SET_X_POINTER, SET_Y_POINTER, WRITE_RAM,
                             SET_UPDATE_SEQUENCE, REFRESH_PANEL>>
        /\ Wire[1].has /\ Len(Wire[1].data) = 1
        /\ Wire[2].has /\ Len(Wire[2].data) = 2
        /\ Wire[3].has /\ Wire[3].data = arg
        /\ Wire[4].has /\ Len(Wire[4].data) = 1
        /\ ~Wire[5].has
        /\ op = "flush" => arg = buffer /\ Len(arg) = (X * Y) \div 8

C1_Witness ==
    op = "flush" /\ result = "Ok" /\ Len(arg) >= 2 /\ arg # Zeros(Len(arg))

\* The hardware reset and the opcodes a connect has put on the bus, in order.
InitTrace ==
    LET sel == SelectSeq(events, LAMBDA e : \/ e.k \in {"rst_low", "rst_high"}
                                            \/ e.k = "spi" /\ e.dc = LOW)
    IN [i \in 1..Len(sel) |-> IF sel[i].k = "spi" THEN sel[i].bytes[1] ELSE sel[i].k]

InitOrder == <<"rst_low", "rst_high", RESET, SET_DATA_ENTRY_MODE, SET_RAM_X, SET_RAM_Y,
               SET_TEMPERATURE_SENSOR>>

\* C2: initialization drives the hardware reset, issues RESET with no payload and
\* then SET_DATA_ENTRY_MODE, SET_RAM_X, SET_RAM_Y, SET_TEMPERATURE_SENSOR, in this
\* order, nothing in between, each exactly once: at any moment of a connect the
\* trace is a prefix of that order, and the whole of it when connect succeeds.
C2_InitOrder ==
    op = "connect" =>
        /\ IsPrefix(InitTrace, InitOrder)
        /\ result = "Ok" =>
              /\ InitTrace = InitOrder
              /\ Opcodes(Wire) = SubSeq(InitOrder, 3, 7)
              /\ ~Wire[1].has

C2_Witness == op = "connect" /\ result = "Ok" /\ Len(Wire) = 5

WriteRamSent == \E i \in DOMAIN events : events[i].k = "spi" /\ events[i].cmd = WRITE_RAM

\* C3: construction runs init exactly once; it returns a controller only when
\* init returned Ok and the init error otherwise; so WRITE_RAM is transmitted
\* only on a controller on which SET_DATA_ENTRY_MODE, SET_RAM_X and SET_RAM_Y
\* were transmitted and their send_command returned Ok.
C3_InitBeforeRamWrite ==
    /\ init_runs <= 1
    /\ controller = "live" =>
          /\ init_runs = 1
          /\ {SET_DATA_ENTRY_MODE, SET_RAM_X, SET_RAM_Y} \subseteq completed
    /\ (op = "connect" /\ Returned) =>
          controller = (IF result = "Ok" THEN "live" ELSE "failed")
    /\ controller = "failed" => (op = "connect" /\ result \notin {"Ok", "pending"})
    /\ WriteRamSent => {SET_DATA_ENTRY_MODE, SET_RAM_X, SET_RAM_Y} \subseteq completed

C3_Witness == WriteRamSent /\ controller = "live" /\ op = "draw_frame"

\* C4: send_command is fail-fast on a busy device: a busy read that returns high
\* ends the call at once with DeviceBusy, a busy read that fails ends it with
\* BusyPinFailure; no step (no data/command line write, no bus write) follows it.
C4_BusyFailFast ==
    \A i \in DOMAIN events :
        (events[i].k = "busy" /\ events[i].out # LOW) =>
            /\ i = Len(events)
            /\ Idle
            /\ result = (IF events[i].out = HIGH THEN "DeviceBusy" ELSE "BusyPinFailure")

C4_Witness ==
    /\ result = "DeviceBusy"
    /\ events # <<>>
    /\ events[Len(events)].k = "busy"
    /\ events[Len(events)].cmd = WRITE_RAM

\* C5: send_command returns Ok only after wait_for_low has seen the busy line low,
\* and that after every bus write of the command, payload or not.
C5_IdleObservedBeforeOk ==
    \A i \in DOMAIN events :
        events[i].k = "ret" =>
            /\ i > 1
            /\ events[i - 1].k = "wait_for_low"
            /\ events[i - 1].cmd = events[i].cmd
            /\ events[i - 1].out = LOW
            /\ \E j \in 1..(i - 2) : events[j].k = "spi" /\ events[j].cmd = events[i].cmd
            /\ \A j \in DOMAIN events :
                  (events[j].k = "spi" /\ events[j].cmd = events[i].cmd) => j < i - 1

C5_Witness ==
    \E i, j \in DOMAIN events :
        /\ events[i].k = "ret" /\ events[i].cmd = WRITE_RAM
        /\ events[j].k = "ret" /\ events[j].cmd = REFRESH_PANEL

\* C6: the busy wait is bounded: it never happens that the busy line stays high
\* for ever while a call stays inside send_command for ever.
C6_BusyWaitBounded == []<>(busy_line = LOW \/ Idle)

\* The DisplayError that names the resource a step uses.
ErrorOf(k) ==
    CASE k = "spi" -> "SpiFailure"
      [] k \in {"dc_low", "dc_high"} -> "DataCommandPinFailure"
      [] k \in {"rst_low", "rst_high"} -> "ResetPinFailure"
      [] k \in {"busy", "wait_for_low"} -> "BusyPinFailure"
      [] OTHER -> "?"

\* C7: a failing step of connect, draw_frame or flush is the last step of the
\* call (nothing follows it, it is not tried again) and the call returns the
\* error naming its resource; a call returns a pin or bus error only so.
C7_AbortOnFailure ==
    op \in {"connect", "draw_frame", "flush"} =>
        /\ \A i \in DOMAIN events :
              events[i].out = "Err" =>
                  /\ i = Len(events)
                  /\ Idle
                  /\ result = ErrorOf(events[i].k)
        /\ result \in {"SpiFailure", "DataCommandPinFailure", "ResetPinFailure",
                       "BusyPinFailure"} =>
              /\ events # <<>>
              /\ events[Len(events)].out = "Err"

C7_Witness ==
    /\ op = "connect"
    /\ result = "DataCommandPinFailure"
    /\ Len(Wire) = 2

\* C8: for every geometry a successful initialization has sent SET_RAM_X with a
\* 2-byte payload whose end byte is (X - 1) / 8 and SET_RAM_Y with a 4-byte
\* payload whose start is 0 and whose end, end_low + 256 * end_high, is Y - 1.
C8_RamRangeEncoding ==
    (op = "connect" /\ result = "Ok") =>
        /\ Wire[3].opcode = SET_RAM_X
        /\ Len(Wire[3].data) = 2
        /\ Wire[3].data[2] = (X - 1) \div 8
        /\ Wire[4].opcode = SET_RAM_Y
        /\ Len(Wire[4].data) = 4
        /\ Wire[4].data[1] + 256 * Wire[4].data[2] = 0
        /\ Wire[4].data[3] + 256 * Wire[4].data[4] = Y - 1

\* Whether the last pixel drawn lies inside the logical canvas.
InCanvas ==
    /\ 0 <= drawn.x /\ drawn.x < bounding_box[1]
    /\ 0 <= drawn.y /\ drawn.y < bounding_box[2]

\* The physical (column, row) the specification gives logical (x, y).
Physical(rot, x, y) ==
    CASE rot = "_0" -> [col |-> x, row |-> y]
      [] rot = "_90" -> [col |-> X - 1 - y, row |-> x]
      [] rot = "_180" -> [col |-> X - 1 - x, row |-> Y - 1 - y]
      [] rot = "_270" -> [col |-> y, row |-> Y - 1 - x]

\* Bit k (0 = least significant) of a byte.
BitOf(byte, k) == (byte \div (2 ^ k)) % 2

\* C9: for every rotation, a pixel set inside the logical canvas leaves the buffer
\* as it was except for bit 7 - (column mod 8) of byte row * (X/8) + column/8,
\* (column, row) being the physical image of (x, y); that bit is 1 after On and 0
\* after Off; the draw succeeds.
C9_SetPixelBit ==
    (drawn.color # "None" /\ InCanvas) =>
        LET p == Physical(rotation, drawn.x, drawn.y)
            i == p.row * (X \div 8) + p.col \div 8
            k == 7 - (p.col % 8)
        IN /\ drawn.outcome = "Ok"
           /\ Len(buffer) = Len(drawn.before)
           /\ i < Len(buffer)
           /\ \A j \in 1..Len(buffer), b \in 0..7 :
                 BitOf(buffer[j], b) =
                     IF j = i + 1 /\ b = k
                     THEN (IF drawn.color = "On" THEN 1 ELSE 0)
                     ELSE BitOf(drawn.before[j], b)

C9_Witness ==
    /\ drawn.color = "On"
    /\ InCanvas
    /\ rotation = "_270"
    /\ X = 16
    /\ drawn.x = 1 /\ drawn.y = 9
    /\ buffer # drawn.before

\* C10: a pixel outside the logical canvas is ignored: the draw succeeds and the
\* buffer is left as it was.
C10_OutsideIgnored ==
    (drawn.color # "None" /\ ~InCanvas) =>
        /\ drawn.outcome = "Ok"
        /\ buffer = drawn.before

\* The logical canvas of the current rotation and the physical grid.
Canvas == (0..(bounding_box[1] - 1)) \X (0..(bounding_box[2] - 1))
Grid == (0..(X - 1)) \X (0..(Y - 1))

\* The physical point draw_iter computes for a logical point, and the buffer bit
\* (byte index, bit index) it then addresses.
HwPoint(c) ==
    LET p == hw(rotation, AsUsize(c[1]), AsUsize(c[2])) IN <<p.hw_x, p.hw_y>>
BitAddress(c) ==
    LET p == HwPoint(c) IN <<byte_index(p[1], p[2]).v, p[1] % 8>>

\* C11: for every rotation the coordinate transform of draw_iter is a bijection
\* from the logical canvas (X by Y for 0 and 180 degrees, Y by X for 90 and 270)
\* onto the physical X by Y grid: the canvas has as many points as the grid, a
\* pixel drawn inside the canvas is sent, without overflow, to a point of the
\* grid and a bit inside the buffer, and no other point of the canvas is sent
\* to that point or addresses that bit.
C11_TransformBijective ==
    /\ bounding_box[1] * bounding_box[2] = X * Y
    /\ LET c == <<drawn.x, drawn.y>>
           pc == HwPoint(c)
           bc == BitAddress(c)
       IN (drawn.color # "None" /\ c \in Canvas) =>
              /\ ~hw(rotation, AsUsize(c[1]), AsUsize(c[2])).ovf
              /\ pc \in Grid
              /\ bc[1] < Len(buffer)
              /\ \A d \in Canvas \ {c} : HwPoint(d) # pc /\ BitAddress(d) # bc

C11_Witness ==
    /\ rotation = "_90"
    /\ X = 16 /\ Y = 2
    /\ drawn.color = "On"
    /\ <<drawn.x, drawn.y>> \in Canvas
    /\ HwPoint(<<drawn.x, drawn.y>>) = <<0, 1>>
    /\ buffer # drawn.before

\* Whether the last call drew On and then Off at one point inside the canvas.
OnThenOff == prev.color = "On" /\ drawn.color = "Off" /\ InCanvas

\* C12 as stated: for every buffer content, rotation and in-canvas coordinate,
\* On and then Off at that coordinate leave the buffer as it was before the two.
C12_RoundTrip == OnThenOff => buffer = prev.before

\* C12: for every buffer content, rotation and in-canvas coordinate, On and then
\* Off at that coordinate both succeed and leave the bit of that pixel 0 and
\* every other bit as it was before the two; the buffer is as it was before
\* exactly when that bit was 0.
C12_OnThenOffClears ==
    OnThenOff =>
        LET p == Physical(rotation, drawn.x, drawn.y)
            i == p.row * (X \div 8) + p.col \div 8
            k == 7 - (p.col % 8)
        IN /\ prev.outcome = "Ok" /\ drawn.outcome = "Ok"
           /\ Len(buffer) = Len(prev.before)
           /\ \A j \in 1..Len(buffer), b \in 0..7 :
                 BitOf(buffer[j], b) =
                     IF j = i + 1 /\ b = k THEN 0 ELSE BitOf(prev.before[j], b)
           /\ buffer = prev.before <=> BitOf(prev.before[i + 1], k) = 0

C12_Witness ==
    /\ OnThenOff
    /\ rotation = "_180"
    /\ buffer # prev.before
    /\ drawn.before = prev.before

\* C13: enable_backlight and disable_backlight return at once. Without a
\* backlight line they return Ok and perform no HAL call at all (no pin write, no
\* read of the busy line, no bus write), whatever the busy line shows; with one
\* they perform exactly one call, the drive of that line (high for enable, low
\* for disable), return Ok when it succeeds, leaving the line at that level, and
\* BacklightPinFailure when, and only when, it fails.
C13_Backlight ==
    op \in {"enable_backlight", "disable_backlight"} =>
        /\ Idle
        /\ backlight_pin = "None" => (events = <<>> /\ result = "Ok" /\ bl_line = LOW)
        /\ backlight_pin = "Some" =>
              /\ Len(events) = 1
              /\ events[1].k = (IF op = "enable_backlight" THEN "bl_high" ELSE "bl_low")
              /\ result = (IF events[1].out = "Ok" THEN "Ok" ELSE "BacklightPinFailure")
              /\ result = "Ok" =>
                    bl_line = (IF op = "enable_backlight" THEN HIGH ELSE LOW)

C13_Witness ==
    /\ op = "disable_backlight"
    /\ backlight_pin = "None"
    /\ result = "Ok"
    /\ busy_line = HIGH
    /\ events = <<>>

\* C14: flush never changes the display: every step from the call of flush to its
\* return, whether draw_frame succeeds or fails at any of its steps, leaves the
\* pixel buffer and the rotation as they were.
C14_FlushKeepsBuffer ==
    [][(op' = "flush" /\ (todo # <<>> \/ todo' # <<>>)) =>
           (buffer' = buffer /\ rotation' = rotation)]_vars

C14_Witness ==
    /\ op = "flush"
    /\ result = "DataCommandPinFailure"
    /\ Len(Wire) = 3
    /\ drawn.color = "On"
    /\ buffer # drawn.before
    /\ arg = buffer

\* C15: a display exists only on a buffer of X*Y/8 bytes: BufferedDisplay::new is
\* not available for an array of any other length, and no draw and no flush,
\* successful or failed, changes the length; flush transmits that many bytes.
C15_BufferLength ==
    /\ display = "wrapped" => Len(buffer) = (X * Y) \div 8
    /\ display = "none" => buffer = <<>>
    /\ op = "flush" => Len(arg) = (X * Y) \div 8

C15_Witness ==
    /\ display = "wrapped"
    /\ op = "flush"
    /\ result = "BusyPinFailure"
    /\ drawn.color = "Off"
    /\ buffer # drawn.before
    /\ Len(buffer) = 4

\* The commands the driver sends without a payload (sw_reset, draw_frame).
Bare == {RESET, REFRESH_PANEL}

\* Whether event i is the first bus write of its command: the opcode write.
OpcodeWrite(i) ==
    /\ events[i].k = "spi"
    /\ \A j \in 1..(i - 1) : ~(events[j].k = "spi" /\ events[j].cmd = events[i].cmd)

\* Whether event i is step `k` of command `cmd` and succeeded.
Did(i, k, cmd) ==
    /\ i \in DOMAIN events
    /\ events[i].k = k
    /\ events[i].cmd = cmd
    /\ events[i].out = "Ok"

\* C16: within a send_command the opcode is written as one byte, just after the
\* data/command line was driven low and a 10 us delay, while that line is low; a
\* second bus write of the command exists only for a command with a payload, and
\* comes just after the opcode write, the drive of the line high and a 10 us
\* delay, while the line is high; nothing else is written on the bus, and the
\* line is driven high only there, never for a command without payload.
C16_CommandFraming ==
    \A i \in DOMAIN events :
        /\ events[i].k = "spi" =>
              IF OpcodeWrite(i)
              THEN /\ Len(events[i].bytes) = 1
                   /\ events[i].bytes[1] = events[i].cmd
                   /\ events[i].dc = LOW
                   /\ Did(i - 1, "delay_us", events[i].cmd) /\ events[i - 1].n = 10
                   /\ Did(i - 2, "dc_low", events[i].cmd)
              ELSE /\ events[i].cmd \notin Bare
                   /\ events[i].dc = HIGH
                   /\ Did(i - 1, "delay_us", events[i].cmd) /\ events[i - 1].n = 10
                   /\ Did(i - 2, "dc_high", events[i].cmd)
                   /\ Did(i - 3, "spi", events[i].cmd) /\ OpcodeWrite(i - 3)
        /\ events[i].k = "dc_high" =>
              /\ events[i].cmd \notin Bare
              /\ Did(i - 1, "spi", events[i].cmd) /\ OpcodeWrite(i - 1)

C16_Witness ==
    /\ op = "draw_frame"
    /\ \E i \in DOMAIN events :
          /\ Did(i, "spi", WRITE_RAM) /\ ~OpcodeWrite(i) /\ events[i].dc = HIGH
          /\ Len(events[i].bytes) >= 2
    /\ \E i \in DOMAIN events : Did(i, "spi", REFRESH_PANEL) /\ events[i].dc = LOW

\* The number of bus writes of command `cmd` that succeeded in this call.
Written(cmd) ==
    Cardinality({i \in DOMAIN events : events[i].k = "spi" /\ events[i].cmd = cmd
                                       /\ events[i].out = "Ok"})

\* C17: the bus is never left in the middle of a command on an error: when a call
\* returns an error, the command it was sending has either put nothing on the
\* bus, or its opcode and, for a command with a payload, its whole payload.
C17_NoPartialCommand ==
    (Returned /\ op \in BusCalls /\ result # "Ok" /\ events # <<>>) =>
        LET cmd == events[Len(events)].cmd IN
        cmd # "" =>
            \/ Written(cmd) = 0
            \/ Written(cmd) = (IF cmd \in Bare THEN 1 ELSE 2)

\* C18: the reset of a connect drives the reset line low, waits at least 10 ms,
\* drives it high, waits at least 10 ms, and only then puts anything on the bus,
\* first the opcode RESET, which gets no payload; the reset line is driven
\* nowhere else; a failed drive of the reset line ends the call with
\* ResetPinFailure before any bus write; once RESET has completed the reset line
\* is high, and stays so.
C18_ResetSequence ==
    /\ op = "connect" =>
          /\ \A i \in DOMAIN events :
                /\ events[i].k = "spi" =>
                      /\ i > 5
                      /\ Did(2, "rst_low", "")
                      /\ Did(3, "delay_ms", "") /\ events[3].n >= 10
                      /\ Did(4, "rst_high", "")
                      /\ Did(5, "delay_ms", "") /\ events[5].n >= 10
                      /\ Wire # <<>> => Wire[1].opcode = RESET
                      /\ events[i].cmd = RESET => OpcodeWrite(i)
                /\ events[i].k \in {"rst_low", "rst_high"} => i \in {2, 4}
          /\ result = "ResetPinFailure" =>
                /\ events[Len(events)].k \in {"rst_low", "rst_high"}
                /\ \A i \in DOMAIN events : events[i].k # "spi"
    /\ op # "connect" => \A i \in DOMAIN events : events[i].k \notin {"rst_low", "rst_high"}
    /\ RESET \in completed => reset_line = HIGH

C18_Witness ==
    /\ op = "connect"
    /\ Did(3, "delay_ms", "") /\ events[3].n = 10
    /\ Did(5, "delay_ms", "") /\ events[5].n = 10
    /\ RESET \in completed
    /\ reset_line = HIGH
    /\ result = "Ok"

\* This step performs the bus write of an opcode: the first write of its command.
OpcodeSent ==
    /\ Running({"spi"})
    /\ Len(events') = Len(events) + 1
    /\ \A j \in DOMAIN events :
          ~(events[j].k = "spi" /\ events[j].cmd = Head(todo).cmd)

=============================================================================
